---------------------------- MODULE Spec2Model ----------------------------
(***************************************************************************)
(* Channel ingestion, aggregation and reconciliation engine of             *)
(* chatHistoryBotServer (src/src/telegram/telegram-service.ts).            *)
(*                                                                         *)
(* Every async method is cut at its awaits: one action is the synchronous  *)
(* code that runs when an awaited operation completes (the operation's     *)
(* effect on the store is applied there) up to the next await.  Timers,    *)
(* update handlers and API calls interleave at those points only.          *)
(***************************************************************************)
EXTENDS Integers, Sequences, FiniteSets, Bags, TLC

VARIABLES
    posts,               \* rows of table messages
    media,               \* rows of table message_media
    pendingMediaGroups,  \* Map groupKey -> PendingMediaGroup, in insertion order
    groups,              \* heap of PendingMediaGroup objects
    flushes,             \* invocations of processMediaGroup
    singles,             \* invocations of handleSingleMessage
    deletes,             \* invocations of handleDeletedMessages
    passes,              \* invocations of syncAllChannels
    config,              \* TelegramConfig flags read by the constructor
    isStarted, startPromise, isSyncing, cronJob,
    starting,            \* client.start() calls in flight
    connected,           \* the transport delivers updates
    startTimers,         \* armed start-up sync timers (setTimeout 5000 in start)
    stopPc,              \* position of stop()
    inbox,               \* new-message updates the transport has not delivered yet
    upstream,            \* message ids present upstream, per channel
    budget,              \* remaining environment calls, per kind
    events               \* what the EventEmitter has emitted, as a bag

vars == <<posts, media, pendingMediaGroups, groups, flushes, singles,
          deletes, passes, config, isStarted, startPromise, isSyncing, cronJob,
          starting, connected, startTimers, stopPc, inbox, upstream, budget, events>>

-----------------------------------------------------------------------------
(* Bounds of the model *)

AggFlushes == 1

(* Program constants *)

limit == 100

-----------------------------------------------------------------------------
(* Values *)

NoId == 0
NoGroup == "none"
Channels == {"c1", "c2"}

EmptyText == << >>
Texts == { << >>, <<" ">>, <<"a">>, <<"b">> }

NoMsg == [id |-> 0, channelId |-> "", groupedId |-> NoGroup, text |-> EmptyText,
          date |-> 0, media |-> "none"]

Msg(i, c, g, t, d, md) ==
    [id |-> i, channelId |-> c, groupedId |-> g, text |-> t, date |-> d, media |-> md]

RECURSIVE TrimStart(_)
TrimStart(t) ==
    IF t = << >> THEN t
    ELSE IF Head(t) = " " THEN TrimStart(Tail(t)) ELSE t

RECURSIVE TrimEnd(_)
TrimEnd(t) ==
    IF t = << >> THEN t
    ELSE IF t[Len(t)] = " " THEN TrimEnd(SubSeq(t, 1, Len(t) - 1)) ELSE t

Trim(t) == TrimEnd(TrimStart(t))

\* message.message && message.message.trim()
HasText(m) == m.text # << >> /\ Trim(m.text) # << >>

RECURSIVE Join(_)
Join(ts) ==
    IF ts = << >> THEN << >>
    ELSE IF Len(ts) = 1 THEN ts[1]
    ELSE ts[1] \o <<" ">> \o Join(Tail(ts))

RECURSIVE Insert(_, _)
Insert(m, s) ==
    IF s = << >> THEN <<m>>
    ELSE IF m.id - Head(s).id < 0 THEN <<m>> \o s
    ELSE <<Head(s)>> \o Insert(m, Tail(s))

RECURSIVE SortById(_)
SortById(s) ==
    IF s = << >> THEN << >>
    ELSE Insert(s[Len(s)], SortById(SubSeq(s, 1, Len(s) - 1)))

Range(s) == { s[i] : i \in DOMAIN s }

-----------------------------------------------------------------------------
(* Store rows and emitted events *)

Post(i, c, mid, t, d, g, isGroup, parent) ==
    [id |-> i, channelId |-> c, messageId |-> mid, text |-> t, date |-> d,
     groupedId |-> g, isMediaGroup |-> isGroup, parentMessageId |-> parent]

\* fileId names the upstream media the file was downloaded from (the photo or
\* document id, media-service.ts 254-256 and 285-287): here the id of its message
MediaRow(i, owner, file) == [id |-> i, messageId |-> owner, fileId |-> file]

\* the attachments of a deleted post stay
CascadeOff(md, ps) == md

\* message_media.message_id references messages.id with onDelete cascade
CascadeMedia(md, ps) == { r \in md : \E p \in ps : p.id = r.messageId }

Event(t, c, is, n, cs) ==
    [type |-> t, channelId |-> c, ids |-> is, count |-> n, cause |-> cs]

Emit(ev, e) == ev (+) SetToBag({e})

\* An insert that reuses a row id: every row written by flush t takes the id
\* of the parent row of that flush
FlushRowIdOfParent(t, i) == 10 * t

\* The store's gen_random_uuid() defaults (schema.ts 59-61, 73-75) never repeat:
\* a row gets an id of its own from the invocation that inserts it and the
\* position its loop has reached in the buffer (0 for a group parent)
FlushRowId(t, i) == 10 * t + i
SingleRowId(s) == 100 + s

-----------------------------------------------------------------------------
(* pendingMediaGroups: a Map, kept as its entries <<key, object>> in insertion order *)

GroupKey(channelId, groupedId) == <<channelId, groupedId>>

MapHas(map, key) == \E i \in DOMAIN map : map[i][1] = key

MapGet(map, key) == map[CHOOSE i \in DOMAIN map : map[i][1] = key][2]

\* every entry is removed, whatever its key
MapClear(map, key) == << >>

MapDelete(map, key) == SelectSeq(map, LAMBDA e : e[1] # key)

MapSet(map, key, o) ==
    IF MapHas(map, key)
    THEN [i \in DOMAIN map |-> IF map[i][1] = key THEN <<key, o>> ELSE map[i]]
    ELSE Append(map, <<key, o>>)

-----------------------------------------------------------------------------
(* handleMediaGroupMessage: no await inside, one step *)

PendingGroup(ms, tm, c, g, main) ==
    [messages |-> ms, timeout |-> tm, channelId |-> c, groupedId |-> g,
     mainMessage |-> main,
     arrived |-> ms]   \* history: the members in arrival order (messages is sorted in place)

\* lines 152-165: the key is pending
AppendToGroup(g, message) ==
    [g EXCEPT !.messages = Append(@, message),
              !.arrived = Append(@, message),
              !.mainMessage = IF HasText(message) THEN message
                              ELSE IF @ = NoMsg THEN message ELSE @,
              !.timeout = TRUE]

\* lines 166-178: the key is not pending
NewGroup(message, channelId) ==
    PendingGroup(<<message>>, TRUE, channelId, message.groupedId,
                 IF HasText(message) THEN message ELSE NoMsg)

handleMediaGroupMessage(message, channelId) ==
    LET groupKey == GroupKey(channelId, message.groupedId) IN
    /\ IF MapHas(pendingMediaGroups, groupKey)
       THEN LET o == MapGet(pendingMediaGroups, groupKey) IN
            /\ groups' = [groups EXCEPT ![o] = AppendToGroup(@, message)]
            /\ UNCHANGED pendingMediaGroups
       ELSE /\ groups' = groups @@ (message.id :> NewGroup(message, channelId))
            /\ pendingMediaGroups' = MapSet(pendingMediaGroups, groupKey, message.id)
    /\ UNCHANGED <<posts, media, flushes, singles, events>>

-----------------------------------------------------------------------------
(* processMediaGroup *)

\* lines 401-412
ChooseMain(pendingMain, groupMessages) ==
    LET mainMessage == IF pendingMain # NoMsg THEN pendingMain ELSE groupMessages[1]
        withText == SelectSeq(groupMessages, HasText)
    IN IF ~HasText(mainMessage) /\ withText # << >> THEN withText[1] ELSE mainMessage

\* the filter keeps every text that is not the empty string
AllTextsUntrimmed(groupMessages) ==
    Join(SelectSeq([i \in DOMAIN groupMessages |-> groupMessages[i].text],
                   LAMBDA text : text # << >>))

\* lines 415-418
AllTexts(groupMessages) ==
    Join(SelectSeq([i \in DOMAIN groupMessages |-> groupMessages[i].text],
                   LAMBDA text : Trim(text) # << >>))

\* msg.media && this.downloadMedia && isValidMediaForDownload(msg.media)
NeedsDownload(m) == m.media = "ok" /\ config.downloadMedia

\* the first index a for loop reaches among the indexes S, 0 when there is none
FirstIndex(S) == IF S = {} THEN 0 ELSE CHOOSE j \in S : \A k \in S : j <= k

FlushTask(o, g, sorted, byStop) ==
    [obj |-> o, key |-> GroupKey(g.channelId, g.groupedId),
     channelId |-> g.channelId, groupedId |-> g.groupedId,
     pc |-> "insertParent",
     mainMessage |-> ChooseMain(g.mainMessage, sorted),
     allTexts |-> AllTexts(sorted),
     createdMsg |-> NoId, i |-> 0, cur |-> NoMsg, mediaPaths |-> 0,
     byStop |-> byStop,
     arrived |-> g.arrived]   \* history: the buffer in arrival order when the flush began

\* lines 392-421: from the lookup to the parent insert being issued; o is the
\* pending object found under the key
BeginFlush(grps, fls, o, byStop) ==
    LET sorted == SortById(grps[o].messages) IN
    [groups |-> [grps EXCEPT ![o].messages = sorted],
     flushes |-> Append(fls, FlushTask(o, grps[o], sorted, byStop))]

\* line 163/167: the debounce timer of object o expires and calls processMediaGroup(groupKey)
TimerFire(o) ==
    /\ groups[o].timeout
    /\ LET key == GroupKey(groups[o].channelId, groups[o].groupedId)
           fired == [groups EXCEPT ![o].timeout = FALSE]
       IN IF MapHas(pendingMediaGroups, key)
          THEN /\ Len(flushes) < budget.flush
               /\ LET b == BeginFlush(fired, flushes, MapGet(pendingMediaGroups, key), FALSE)
                  IN groups' = b.groups /\ flushes' = b.flushes
          ELSE groups' = fired /\ UNCHANGED flushes
    /\ UNCHANGED <<posts, media, pendingMediaGroups, singles, deletes, passes,
                   config, isStarted, startPromise, isSyncing, cronJob, starting,
                   connected, startTimers, stopPc, inbox, upstream, budget, events>>

\* lines 900-907 of stop(): the loop over the pending map goes on with the first
\* entry left (every entry visited so far was deleted by its flush), and after
\* the last one the map is cleared and disconnect() is awaited
StopLoop(map, grps, fls) ==
    IF map # << >>
    THEN LET o == map[1][2]
             b == BeginFlush([grps EXCEPT ![o].timeout = FALSE], fls, o, TRUE)
         IN [map |-> map, groups |-> b.groups, flushes |-> b.flushes, stopPc |-> "flushing"]
    ELSE [map |-> << >>, groups |-> grps, flushes |-> fls, stopPc |-> "disconnect"]

\* lines 490-513: the newMessage event and the finally block
FlushEvent(f, groupMessages) ==
    Event("newMessage", f.channelId, {f.mainMessage.id}, f.mediaPaths, "group")

\* The loops of lines 439-488 from the point reached to the next await:
\* phase "media" from index from, then phase "child"; "done" when both are over.
NextAwait(f, groupMessages, phase, from) ==
    LET n == Len(groupMessages)
        j == IF phase = "media"
             THEN FirstIndex({ x \in from..n : NeedsDownload(groupMessages[x]) })
             ELSE 0
        k == FirstIndex({ x \in (IF phase = "media" THEN 1 ELSE from)..n :
                              groupMessages[x].id # f.mainMessage.id })
    IN IF j # 0 THEN [f EXCEPT !.pc = "media", !.i = j, !.cur = groupMessages[j]]
       ELSE IF k # 0 THEN [f EXCEPT !.pc = "child", !.i = k, !.cur = groupMessages[k]]
       ELSE [f EXCEPT !.pc = "done", !.i = 0, !.cur = NoMsg]

\* lines 421-432: the row of the group parent
ParentRow(f, id) ==
    Post(id, f.channelId, f.mainMessage.id, f.allTexts, f.mainMessage.date,
         f.groupedId, TRUE, NoId)

\* the row of another member keeps the member's own text
ChildRowKeepsText(f, msg, id) ==
    Post(id, f.channelId, msg.id, msg.text, msg.date, f.groupedId, FALSE, f.createdMsg)

\* lines 478-486: the row of another member
ChildRow(f, msg, id) ==
    Post(id, f.channelId, msg.id, EmptyText, msg.date, f.groupedId, FALSE, f.createdMsg)

\* lines 449-461 with media-service.ts 296-323: the attachment is stored for
\* messageDbId = createdMsg.id; a failed download or a rejected insert gives null
MediaOwner(f, msg) == f.createdMsg

\* a failed download is not caught by the media service
DownloadOutcomeThrows(ok) == IF ok THEN "path" ELSE "throw"

\* media-service.ts 59-90 and 244-323: both download methods catch every
\* failure and answer null
DownloadOutcome(ok) == IF ok THEN "path" ELSE "null"

\* The awaited operation of flush t completes (ok: the download succeeded) and
\* processMediaGroup runs on to its next await or to its end.
FlushResume(t, ok) ==
    LET f == flushes[t]
        groupMessages == groups[f.obj].messages
        thrown == f.pc = "media" /\ DownloadOutcome(ok) = "throw"
        stored == /\ f.pc = "media" /\ DownloadOutcome(ok) = "path"
                  /\ \E p \in posts : p.id = MediaOwner(f, f.cur)
        f1 == CASE f.pc = "insertParent" -> [f EXCEPT !.createdMsg = FlushRowId(t, 0)]
                [] f.pc = "media" -> [f EXCEPT !.mediaPaths = IF stored THEN @ + 1 ELSE @]
                [] OTHER -> f
        f2 == CASE thrown -> [f1 EXCEPT !.pc = "failed", !.i = 0, !.cur = NoMsg]
                [] f.pc = "insertParent" -> NextAwait(f1, groupMessages, "media", 1)
                [] f.pc = "media" -> NextAwait(f1, groupMessages, "media", f.i + 1)
                [] OTHER -> NextAwait(f1, groupMessages, "child", f.i + 1)
        fls == [flushes EXCEPT ![t] = f2]
        finished == f2.pc \in {"done", "failed"}
        grps == IF finished THEN [groups EXCEPT ![f.obj].timeout = FALSE] ELSE groups
        map == IF finished THEN MapDelete(pendingMediaGroups, f.key) ELSE pendingMediaGroups
        cont == IF finished /\ f.byStop /\ stopPc = "flushing"
                THEN StopLoop(map, grps, fls)
                ELSE [map |-> map, groups |-> grps, flushes |-> fls, stopPc |-> stopPc]
    IN /\ f.pc \in {"insertParent", "media", "child"}
       /\ (f.pc # "media") => ok
       /\ Len(cont.flushes) <= budget.flush
       /\ posts' = CASE f.pc = "insertParent" -> posts \cup {ParentRow(f, FlushRowId(t, 0))}
                     [] f.pc = "child" -> posts \cup {ChildRow(f, f.cur, FlushRowId(t, f.i))}
                     [] OTHER -> posts
       /\ media' = IF stored
                   THEN media \cup {MediaRow(FlushRowId(t, f.i), MediaOwner(f, f.cur), f.cur.id)}
                   ELSE media
       \* lines 490-501, and 506-508 when the try block has thrown
       /\ events' = CASE f2.pc = "done" -> Emit(events, FlushEvent(f2, groupMessages))
                      [] f2.pc = "failed" -> Emit(events, Event("error", f.channelId, {}, 0, "group"))
                      [] OTHER -> events
       /\ pendingMediaGroups' = cont.map
       /\ groups' = cont.groups
       /\ flushes' = cont.flushes
       /\ stopPc' = cont.stopPc
       /\ UNCHANGED <<singles, deletes, passes, config, isStarted, startPromise, isSyncing,
                      cronJob, starting, connected, startTimers, inbox, upstream, budget>>

-----------------------------------------------------------------------------
(* start, stop, forceStop, cleanup, quickStop *)

Spend(kind) == budget[kind] > 0 /\ budget' = [budget EXCEPT ![kind] = @ - 1]

\* lines 817-825: start() up to the await of client.start()
StartBegin ==
    /\ ~isStarted /\ ~startPromise
    /\ Spend("start")
    /\ startPromise' = TRUE
    /\ starting' = starting + 1
    /\ UNCHANGED <<posts, media, pendingMediaGroups, groups, flushes, singles,
                   deletes, passes, config, isStarted, isSyncing, cronJob, connected,
                   startTimers, stopPc, inbox, upstream, events>>

\* lines 850-869: client.start() resolved
StartDone ==
    /\ starting > 0
    /\ starting' = starting - 1
    /\ isStarted' = TRUE
    /\ connected' = TRUE
    /\ cronJob' = IF config.enableSync THEN TRUE ELSE cronJob
    /\ startTimers' = IF config.syncOnStart THEN startTimers + 1 ELSE startTimers
    /\ events' = Emit(events, Event("started", "", {}, 0, ""))
    /\ UNCHANGED <<posts, media, pendingMediaGroups, groups, flushes, singles,
                   deletes, passes, config, startPromise, isSyncing, stopPc, inbox,
                   upstream, budget>>

\* lines 964-989, called n times in a row: every call emits "stopped"
Cleanup(n) ==
    /\ isStarted' = FALSE
    /\ startPromise' = FALSE
    /\ isSyncing' = FALSE
    /\ cronJob' = FALSE
    /\ groups' = [o \in DOMAIN groups |->
                    IF \E i \in DOMAIN pendingMediaGroups : pendingMediaGroups[i][2] = o
                    THEN [groups[o] EXCEPT !.timeout = FALSE] ELSE groups[o]]
    /\ pendingMediaGroups' = << >>
    /\ events' = events (+) [e \in {Event("stopped", "", {}, 0, "")} |-> n]

\* lines 883-907: stop() from its guard to its first await
StopBegin ==
    /\ isStarted /\ stopPc = "idle"
    /\ Spend("stop")
    /\ cronJob' = FALSE
    /\ LET s == StopLoop(pendingMediaGroups, groups, flushes) IN
       /\ Len(s.flushes) <= budget.flush
       /\ pendingMediaGroups' = s.map
       /\ groups' = s.groups
       /\ flushes' = s.flushes
       /\ stopPc' = s.stopPc
    /\ UNCHANGED <<posts, media, singles, deletes, passes, config, isStarted,
                   startPromise, isSyncing, starting, connected, startTimers, inbox,
                   upstream, events>>

\* a rejected or unanswered disconnect() is not followed by forceStop, and the
\* finally block is skipped
StopDisconnectNoForce(outcome) ==
    /\ stopPc = "disconnect"
    /\ stopPc' = "idle"
    /\ IF outcome = "graceful"
       THEN connected' = FALSE /\ Cleanup(1)
       ELSE UNCHANGED <<connected, isStarted, startPromise, isSyncing, cronJob, groups,
                        pendingMediaGroups, events>>
    /\ UNCHANGED <<posts, media, flushes, singles, deletes, passes, config,
                   starting, startTimers, inbox, upstream, budget>>

\* lines 913-946: disconnect() resolves ("graceful": finally runs cleanup once),
\* rejects ("error") or the 5 s timer fires first ("timeout"): forceStop runs
\* cleanup and the finally block runs it again
StopDisconnect(outcome) ==
    /\ stopPc = "disconnect"
    /\ stopPc' = "idle"
    /\ connected' = FALSE
    /\ Cleanup(IF outcome = "graceful" THEN 1 ELSE 2)
    /\ UNCHANGED <<posts, media, flushes, singles, deletes, passes, config,
                   starting, startTimers, inbox, upstream, budget>>

\* lines 1000-1003 and 948-962
QuickStop ==
    /\ Spend("quickStop")
    /\ connected' = FALSE
    /\ Cleanup(1)
    /\ UNCHANGED <<posts, media, flushes, singles, deletes, passes, config,
                   starting, startTimers, stopPc, inbox, upstream>>

-----------------------------------------------------------------------------
(* handleSingleMessage *)

SingleTask(message, channelId) ==
    [message |-> message, channelId |-> channelId, pc |-> "insert", createdMsg |-> NoId]

\* lines 558-569: the row of a standalone post
SingleRow(s, id) ==
    Post(id, s.channelId, s.message.id, s.message.text, s.message.date,
         NoGroup, FALSE, NoId)

\* lines 553-557: the handler starts, sleeps up to 100 ms and issues the insert
handleSingleMessage(message, channelId) ==
    /\ singles' = Append(singles, SingleTask(message, channelId))
    /\ UNCHANGED <<posts, media, pendingMediaGroups, groups, flushes, events>>

\* The awaited operation of single ingest s completes (ok: the download succeeded)
SingleResume(s, ok) ==
    LET h == singles[s]
        stored == h.pc = "media" /\ ok /\ \E p \in posts : p.id = h.createdMsg
        next == IF h.pc = "insert" /\ NeedsDownload(h.message) THEN "media" ELSE "done"
    IN /\ h.pc \in {"insert", "media"}
       /\ (h.pc # "media") => ok
       /\ posts' = IF h.pc = "insert" THEN posts \cup {SingleRow(h, SingleRowId(s))} ELSE posts
       /\ media' = IF stored THEN media \cup {MediaRow(SingleRowId(s), h.createdMsg, h.message.id)} ELSE media
       /\ singles' = [singles EXCEPT ![s].pc = next,
                                     ![s].createdMsg = IF h.pc = "insert" THEN SingleRowId(s) ELSE @]
       /\ events' = IF next = "done"
                    THEN Emit(events, Event("newMessage", h.channelId, {h.message.id},
                                            IF stored THEN 1 ELSE 0, "single"))
                    ELSE events
       /\ UNCHANGED <<pendingMediaGroups, groups, flushes, deletes, passes, config,
                      isStarted, startPromise, isSyncing, cronJob, starting, connected,
                      startTimers, stopPc, inbox, upstream, budget>>

\* lines 69-90: an UpdateNewChannelMessage for an allowed channel is routed
Deliver(message) ==
    /\ connected
    /\ message \in inbox
    /\ inbox' = inbox \ {message}
    /\ IF message.channelId \notin Range(config.allowedChannels)
       THEN UNCHANGED <<posts, media, pendingMediaGroups, groups, flushes,
                        singles, events>>
       ELSE IF message.groupedId # NoGroup /\ message.media # "none"
       THEN handleMediaGroupMessage(message, message.channelId)
       ELSE handleSingleMessage(message, message.channelId)
    /\ UNCHANGED <<deletes, passes, config, isStarted, startPromise, isSyncing, cronJob,
                   starting, connected, startTimers, stopPc, upstream, budget>>

\* lines 69-90: the transport delivers once more an update that handleSingleMessage
\* has taken before (at most max invocations in all)
Redeliver(s, max) ==
    /\ connected
    /\ Len(singles) < max
    /\ handleSingleMessage(singles[s].message, singles[s].channelId)
    /\ UNCHANGED <<deletes, passes, config, isStarted, startPromise, isSyncing, cronJob,
                   starting, connected, startTimers, stopPc, inbox, upstream, budget>>

-----------------------------------------------------------------------------
(* handleDeletedMessages and deleteMediaByMessageId *)

RECURSIVE SeqOf(_)
\* the rows of a result set, in row id order
SeqOf(S) ==
    IF S = {} THEN << >>
    ELSE LET r == CHOOSE x \in S : \A y \in S : x.id <= y.id
         IN <<r>> \o SeqOf(S \ {r})

\* lines 639-642: select ... where inArray(messages.messageId, messageIds)
ResolvePosts(ps, messageIds, channelId) == { p \in ps : p.messageId \in messageIds }

\* media-service.ts 326-363: the attachments of one post are removed
DeleteMediaByMessageId(md, messageDbId) == { r \in md : r.messageId # messageDbId }

\* lines 659-662: delete ... where eq(messages.parentMessageId, id)
DeleteChildren(ps, id) == { p \in ps : p.parentMessageId # id }

\* lines 672-675: delete ... where inArray(messages.messageId, messageIds)
DeleteResolved(ps, messageIds, channelId) == { p \in ps : p.messageId \notin messageIds }

DeleteTask(messageIds, channelId, deleteType) ==
    [messageIds |-> messageIds, channelId |-> channelId, deleteType |-> deleteType,
     pc |-> "select", messagesToDelete |-> << >>, i |-> 0, deletedCount |-> 0,
     unlinkFailed |-> FALSE]   \* history: fs.unlink has failed for a file of this call

DeleteTypes == {"manual", "auto", "ttl"}

\* lines 93-129: a delete update arrives; only UpdateDeleteChannelMessages carries a channel
DeleteBegin(messageIds, channelId, deleteType) ==
    /\ connected
    /\ Len(deletes) < budget.delete
    /\ (deleteType = "manual") <=> (channelId # "")
    /\ deletes' = Append(deletes, DeleteTask(messageIds, channelId, deleteType))
    /\ UNCHANGED <<posts, media, pendingMediaGroups, groups, flushes, singles,
                   passes, config, isStarted, startPromise, isSyncing, cronJob, starting,
                   connected, startTimers, stopPc, inbox, upstream, budget, events>>

\* an empty result set is taken for a failure
AfterSelectRaises(d, found) ==
    IF found = << >> THEN [d EXCEPT !.pc = "failed"]
    ELSE [d EXCEPT !.pc = "media", !.i = 1, !.messagesToDelete = found]

\* lines 643-650: what follows the select
AfterSelect(d, found) ==
    IF found = << >> THEN [d EXCEPT !.pc = "done"]
    ELSE [d EXCEPT !.pc = "media", !.i = 1, !.messagesToDelete = found]

\* a failure of fs.unlink leaves deleteMediaByMessageId as an exception
UnlinkOutcomeThrows(ok) == IF ok THEN "removed" ELSE "throw"

\* media-service.ts 338-350: a failure of fs.unlink is caught and logged
UnlinkOutcome(ok) == IF ok THEN "removed" ELSE "warned"

\* The awaited operation of deletion d completes (ok: the files of the post
\* in turn were removed from the disk)
DeleteResume(d, ok) ==
    LET h == deletes[d]
        n == Len(h.messagesToDelete)
        gone == posts \ DeleteResolved(posts, h.messageIds, h.channelId)
        thrown == h.pc = "media" /\ UnlinkOutcome(ok) = "throw"
        ps == CASE h.pc = "children" -> DeleteChildren(posts, h.messagesToDelete[h.i].id)
                [] h.pc = "main" -> posts \ gone
                [] OTHER -> posts
        md == IF h.pc = "media" /\ ~thrown
              THEN DeleteMediaByMessageId(media, h.messagesToDelete[h.i].id)
              ELSE media
        h1 == CASE h.pc = "select" ->
                     AfterSelect(h, SeqOf(ResolvePosts(posts, h.messageIds, h.channelId)))
                [] thrown -> [h EXCEPT !.pc = "failed", !.unlinkFailed = TRUE]
                [] h.pc = "media" ->
                     IF h.i < n THEN [h EXCEPT !.i = @ + 1, !.unlinkFailed = @ \/ ~ok]
                     ELSE [h EXCEPT !.pc = "children", !.i = 1, !.unlinkFailed = @ \/ ~ok]
                [] h.pc = "children" ->
                     IF h.i < n THEN [h EXCEPT !.i = @ + 1]
                     ELSE [h EXCEPT !.pc = "main", !.i = 0]
                [] h.pc = "failed" -> [h EXCEPT !.pc = "done"]
                [] OTHER -> [h EXCEPT !.pc = "done", !.deletedCount = Cardinality(gone)]
    IN /\ h.pc \in {"select", "media", "children", "main", "failed"}
       \* a file is unlinked only for a post that has attachment rows
       /\ ~ok => /\ h.pc = "media"
                 /\ \E r \in media : r.messageId = h.messagesToDelete[h.i].id
       /\ posts' = ps
       /\ media' = CascadeMedia(md, ps)
       /\ deletes' = [deletes EXCEPT ![d] = h1]
       /\ events' = CASE h.pc = "main" ->
                         Emit(events, Event("messagesDeleted", h.channelId, h.messageIds,
                                            Cardinality(gone), h.deleteType))
                      [] h.pc = "failed" ->
                         Emit(events, Event("error", h.channelId, h.messageIds, 0,
                                            h.deleteType))
                      [] OTHER -> events
       /\ UNCHANGED <<pendingMediaGroups, groups, flushes, singles, passes, config,
                      isStarted, startPromise, isSyncing, cronJob, starting, connected,
                      startTimers, stopPc, inbox, upstream, budget>>

-----------------------------------------------------------------------------
(* deleteMessage: the delete of one post by its row id, from the admin API *)

\* lines 702-704: deleteMessage(messageDbId) up to its first await
DeleteMessageBegin(messageDbId) ==
    /\ Len(deletes) < budget.delete
    /\ \E r \in posts :
          /\ r.id = messageDbId
          /\ deletes' = Append(deletes, [DeleteTask({}, "", "admin") EXCEPT
                                             !.pc = "adminMedia", !.i = 1,
                                             !.messagesToDelete = <<r>>])
    /\ UNCHANGED <<posts, media, pendingMediaGroups, groups, flushes, singles,
                   passes, config, isStarted, startPromise, isSyncing, cronJob, starting,
                   connected, startTimers, stopPc, inbox, upstream, budget, events>>

\* lines 704-727: the awaited operation of deleteMessage d completes
DeleteMessageResume(d) ==
    LET h == deletes[d]
        id == h.messagesToDelete[1].id
        gone == { p \in posts : p.id = id }
        ps == CASE h.pc = "adminChildren" -> DeleteChildren(posts, id)
                [] h.pc = "adminMain" -> posts \ gone
                [] OTHER -> posts
        md == IF h.pc = "adminMedia" THEN DeleteMediaByMessageId(media, id) ELSE media
    IN /\ h.pc \in {"adminMedia", "adminChildren", "adminMain"}
       /\ posts' = ps
       /\ media' = CascadeMedia(md, ps)
       /\ deletes' = [deletes EXCEPT ![d] =
              CASE h.pc = "adminMedia" -> [h EXCEPT !.pc = "adminChildren"]
                [] h.pc = "adminChildren" -> [h EXCEPT !.pc = "adminMain"]
                [] OTHER -> [h EXCEPT !.pc = "done", !.deletedCount = Cardinality(gone)]]
       /\ events' = IF h.pc = "adminMain" /\ gone # {}
                    THEN Emit(events, Event("messageDeleted", "", {id}, 1, "admin"))
                    ELSE events
       /\ UNCHANGED <<pendingMediaGroups, groups, flushes, singles, passes, config,
                      isStarted, startPromise, isSyncing, cronJob, starting, connected,
                      startTimers, stopPc, inbox, upstream, budget>>

-----------------------------------------------------------------------------
(* syncChannel and syncAllChannels *)

PassTask(channels) ==
    [pc |-> "start", rest |-> channels, channelId |-> "", telegramMessages |-> {},
     offset |-> 0, messagesToDelete |-> << >>, i |-> 0, syncedCount |-> 0,
     errorCount |-> 0, totalChannels |-> Len(channels),
     before |-> {},      \* history: the channel's rows when its syncChannel was called
     fetches |-> 0,      \* history: 1 once a page of the upstream listing was fetched
     flagSet |-> FALSE]  \* history: what line 315 wrote to isSyncing for this pass

RECURSIVE Descending(_)
Descending(S) ==
    IF S = {} THEN << >>
    ELSE LET m == CHOOSE x \in S : \A y \in S : y <= x
         IN <<m>> \o Descending(S \ {m})

\* lines 198-201: getMessages(entity, {limit, offsetId}): the newest ids below
\* offsetId (all ids when offsetId is 0), at most limit of them
Page(ids, offsetId) ==
    LET below == Descending({ x \in ids : offsetId = 0 \/ x < offsetId })
    IN SubSeq(below, 1, IF Len(below) < limit THEN Len(below) ELSE limit)

\* the fetched ids are compared with the row id instead of the upstream id
DriftedByRowId(dbMessages, telegramMessages) ==
    { msg \in dbMessages : msg.id \notin telegramMessages }

\* the test of the filter is inverted
DriftedInverted(dbMessages, telegramMessages) ==
    { msg \in dbMessages : msg.messageId \in telegramMessages }

\* lines 229-231
Drifted(dbMessages, telegramMessages) ==
    { msg \in dbMessages : msg.messageId \notin telegramMessages }

\* the backfill is active: a row is inserted for every fetched id missing locally
BackfillMissing(ps, channelId, telegramMessages) ==
    ps \cup { Post(1000 + id, channelId, id, EmptyText, 0, NoGroup, FALSE, NoId) :
                id \in { x \in telegramMessages :
                            \A m \in ps : m.channelId = channelId => m.messageId # x } }

\* lines 255-294: the backfill of upstream ids missing locally is commented out
Backfill(ps, channelId, telegramMessages) == ps

SyncEvent(type, channelId, n) == Event(type, channelId, {}, n, "")

\* a channel that throws at once ends the loop: the channels left are not counted
NextChannelAborts(p, ev, started) ==
    IF p.rest = << >>
    THEN [pass |-> [p EXCEPT !.pc = "done", !.channelId = ""],
          events |-> Emit(ev, Event("fullSyncCompleted", "", {}, p.syncedCount, "")),
          finished |-> TRUE]
    ELSE IF started
    THEN [pass |-> [p EXCEPT !.pc = "getEntity", !.channelId = Head(p.rest),
                             !.rest = Tail(p.rest), !.telegramMessages = {},
                             !.offset = 0, !.messagesToDelete = << >>, !.i = 0,
                             !.before = { m \in posts : m.channelId = Head(p.rest) }],
          events |-> ev, finished |-> FALSE]
    ELSE [pass |-> [p EXCEPT !.pc = "done", !.channelId = "", !.rest = << >>,
                             !.errorCount = @ + 1],
          events |-> Emit(ev, Event("fullSyncCompleted", "", {}, p.syncedCount, "")),
          finished |-> TRUE]

\* lines 325-352 from the head of the for loop: channels are started in turn; a
\* channel whose syncChannel throws at once (line 182) is counted and skipped
NextChannel(p, ev, started) ==
    IF p.rest = << >>
    THEN [pass |-> [p EXCEPT !.pc = "done", !.channelId = ""],
          events |-> Emit(ev, Event("fullSyncCompleted", "", {}, p.syncedCount, "")),
          finished |-> TRUE]
    ELSE IF started
    THEN [pass |-> [p EXCEPT !.pc = "getEntity", !.channelId = Head(p.rest),
                             !.rest = Tail(p.rest), !.telegramMessages = {},
                             !.offset = 0, !.messagesToDelete = << >>, !.i = 0,
                             !.before = { m \in posts : m.channelId = Head(p.rest) }],
          events |-> ev, finished |-> FALSE]
    ELSE [pass |-> [p EXCEPT !.pc = "done", !.channelId = "", !.rest = << >>,
                             !.errorCount = @ + Len(p.rest)],
          events |-> Emit(ev, Event("fullSyncCompleted", "", {}, p.syncedCount, "")),
          finished |-> TRUE]

\* the flag is never raised
GuardNeverSet == FALSE

\* line 315: this.isSyncing = true
GuardValue == TRUE

\* lines 309-327: a request for a full pass, from the cron job, the start-up
\* timer or the API
syncAllChannels ==
    IF isSyncing
    THEN UNCHANGED <<passes, isSyncing, events>>
    ELSE /\ Len(passes) < budget.pass
         /\ LET n == NextChannel(PassTask(config.allowedChannels), events, isStarted) IN
            /\ passes' = Append(passes, [n.pass EXCEPT !.flagSet = GuardValue])
            /\ isSyncing' = IF n.finished THEN FALSE ELSE GuardValue
            /\ events' = n.events

\* lines 373-382: the cron job fires
CronTick ==
    /\ cronJob
    /\ Spend("tick")
    /\ syncAllChannels
    /\ UNCHANGED <<posts, media, pendingMediaGroups, groups, flushes, singles,
                   deletes, config, isStarted, startPromise, cronJob, starting, connected,
                   startTimers, stopPc, inbox, upstream>>

\* lines 861-865: the timer armed by start() fires
StartTimerFire ==
    /\ startTimers > 0
    /\ startTimers' = startTimers - 1
    /\ syncAllChannels
    /\ UNCHANGED <<posts, media, pendingMediaGroups, groups, flushes, singles,
                   deletes, config, isStarted, startPromise, cronJob, starting, connected,
                   stopPc, inbox, upstream, budget>>

\* the failure is swallowed after the event: the rows of the channel whose ids
\* were not fetched so far are pruned
SyncFailedPrunes(p, same) ==
    [same EXCEPT !.pass = [p EXCEPT !.errorCount = @ + 1],
                 !.posts = { m \in @ : m.channelId # p.channelId
                                        \/ m.messageId \in p.telegramMessages },
                 !.events = Emit(@, SyncEvent("syncError", p.channelId, 0)),
                 !.ended = TRUE]

\* lines 303-307, 331-335: getEntity or getMessages has thrown; the catch of
\* syncChannel emits syncError and rethrows, and syncAllChannels counts the error
SyncFailed(p, same) ==
    [same EXCEPT !.pass = [p EXCEPT !.errorCount = @ + 1],
                 !.events = Emit(@, SyncEvent("syncError", p.channelId, 0)),
                 !.ended = TRUE]

\* What the step of pass p that completes its awaited operation leaves: the
\* pass, the store and the events, before the for loop of syncAllChannels goes on
PassStep(p, ok) ==
    LET page == Page(upstream[p.channelId], p.offset)
        dbMessages == { m \in posts : m.channelId = p.channelId }
        found == SeqOf(Drifted(dbMessages, p.telegramMessages))
        n == Len(p.messagesToDelete)
        ids == { p.messagesToDelete[k].id : k \in 1..n }
        same == [pass |-> p, posts |-> posts, media |-> media, events |-> events,
                 ended |-> FALSE]
        \* lines 255-302: what follows the deletions, from the rows ps they leave
        synced(q, k, ps) ==
            [same EXCEPT !.pass = [q EXCEPT !.pc = "chanDelay", !.syncedCount = @ + 1],
                         !.posts = Backfill(ps, p.channelId, p.telegramMessages),
                         !.events = Emit(events, SyncEvent("channelSynced", p.channelId, k))]
    IN CASE ~ok -> SyncFailed(p, same)
         [] p.pc = "getEntity" -> [same EXCEPT !.pass = [p EXCEPT !.pc = "getMessages"]]
         [] p.pc = "getMessages" ->
              IF page = << >>
              THEN [same EXCEPT !.pass = [p EXCEPT !.pc = "select", !.fetches = 1]]
              ELSE [same EXCEPT !.pass = [p EXCEPT !.telegramMessages = @ \cup Range(page),
                                                   !.offset = page[Len(page)],
                                                   !.fetches = 1]]
         [] p.pc = "select" ->
              IF found = << >> THEN synced(p, 0, posts)
              ELSE [same EXCEPT !.pass = [p EXCEPT !.pc = "deleteMedia", !.i = 1,
                                                   !.messagesToDelete = found]]
         [] p.pc = "deleteMedia" ->
              [same EXCEPT !.media = DeleteMediaByMessageId(media, p.messagesToDelete[p.i].id),
                           !.pass = IF p.i < n THEN [p EXCEPT !.i = @ + 1]
                                    ELSE [p EXCEPT !.pc = "deleteChildren", !.i = 1]]
         [] p.pc = "deleteChildren" ->
              [same EXCEPT !.posts = DeleteChildren(posts, p.messagesToDelete[p.i].id),
                           !.pass = IF p.i < n THEN [p EXCEPT !.i = @ + 1]
                                    ELSE [p EXCEPT !.pc = "deleteMain", !.i = 0]]
         [] p.pc = "deleteMain" ->
              synced(p, n, { m \in posts : m.id \notin ids })
         [] OTHER -> [same EXCEPT !.ended = TRUE]   \* "chanDelay": the 2 s pause is over

\* The awaited operation of pass t completes (ok: the upstream call succeeded)
PassResume(t, ok) ==
    LET p == passes[t]
        s == PassStep(p, ok)
        n == IF s.ended THEN NextChannel(s.pass, s.events, isStarted)
             ELSE [pass |-> s.pass, events |-> s.events, finished |-> FALSE]
    IN /\ p.pc \notin {"start", "done"}
       /\ ok \/ p.pc \in {"getEntity", "getMessages"}
       /\ (ok /\ p.pc \in {"getEntity", "getMessages"}) => connected
       /\ posts' = s.posts
       /\ media' = CascadeMedia(s.media, s.posts)
       /\ passes' = [passes EXCEPT ![t] = n.pass]
       /\ events' = n.events
       /\ isSyncing' = IF n.finished THEN FALSE ELSE isSyncing
       /\ UNCHANGED <<pendingMediaGroups, groups, flushes, singles, deletes, config,
                      isStarted, startPromise, cronJob, starting, connected, startTimers,
                      stopPc, inbox, upstream, budget>>

\* The channel's owner deletes a message upstream (the update may never arrive)
UpstreamDelete(c, id) ==
    /\ id \in upstream[c]
    /\ Spend("upstreamDelete")
    /\ upstream' = [upstream EXCEPT ![c] = @ \ {id}]
    /\ UNCHANGED <<posts, media, pendingMediaGroups, groups, flushes, singles,
                   deletes, passes, config, isStarted, startPromise, isSyncing, cronJob,
                   starting, connected, startTimers, stopPc, inbox, events>>

-----------------------------------------------------------------------------
(* Initial states: the service right after its constructor *)

Config(sync, download, chans) ==
    [enableSync |-> sync, syncOnStart |-> sync, downloadMedia |-> download,
     allowedChannels |-> chans]

\* start, stop, quickStop, tick and upstreamDelete count the calls left; flush,
\* delete and pass cap the invocations of processMediaGroup,
\* handleDeletedMessages and syncAllChannels
Budget(starts, stops, quickStops, ticks, upstreamDeletes, fl, del, pass) ==
    [start |-> starts, stop |-> stops, quickStop |-> quickStops, tick |-> ticks,
     upstreamDelete |-> upstreamDeletes, flush |-> fl, delete |-> del, pass |-> pass]

Constructed(cfg, updates, bud) ==
    /\ posts = {} /\ media = {}
    /\ pendingMediaGroups = << >> /\ groups = << >>
    /\ flushes = << >> /\ singles = << >> /\ deletes = << >> /\ passes = << >>
    /\ config = cfg
    /\ isStarted = FALSE /\ startPromise = FALSE /\ isSyncing = FALSE
    /\ cronJob = FALSE /\ starting = 0 /\ connected = FALSE /\ startTimers = 0
    /\ stopPc = "idle"
    /\ inbox = updates
    /\ upstream = [c \in Channels |-> { m.id : m \in { u \in updates : u.channelId = c } }]
    /\ budget = bud
    /\ events = EmptyBag

-----------------------------------------------------------------------------
(* SpecAgg: one album of three messages, any texts, any arrival order *)

InitAgg ==
    \E t1, t2, t3 \in Texts :
        Constructed(Config(FALSE, FALSE, <<"c1">>),
                    { Msg(1, "c1", "g1", t1, 11, "ok"), Msg(2, "c1", "g1", t2, 12, "ok"),
                      Msg(3, "c1", "g1", t3, 13, "ok") },
                    Budget(1, 0, 0, 0, 0, AggFlushes, 0, 0))

NextAgg ==
    \/ StartBegin
    \/ StartDone
    \/ \E m \in inbox : Deliver(m)
    \/ \E o \in DOMAIN groups : TimerFire(o)
    \/ \E t \in DOMAIN flushes, ok \in BOOLEAN : FlushResume(t, ok)

SpecAgg == InitAgg /\ [][NextAgg]_vars

-----------------------------------------------------------------------------
(* SpecStop: one album of two messages, timers, stop() *)

StopFlushes == 2

InitStop ==
    Constructed(Config(FALSE, FALSE, <<"c1">>),
                { Msg(1, "c1", "g1", <<"a">>, 11, "ok"), Msg(2, "c1", "g1", << >>, 12, "ok") },
                Budget(1, 1, 0, 0, 0, StopFlushes, 0, 0))

NextStop ==
    \/ StartBegin
    \/ StartDone
    \/ \E m \in inbox : Deliver(m)
    \/ \E o \in DOMAIN groups : TimerFire(o)
    \/ \E t \in DOMAIN flushes, ok \in BOOLEAN : FlushResume(t, ok)
    \/ StopBegin
    \/ \E outcome \in {"graceful", "error", "timeout"} : StopDisconnect(outcome)

SpecStop == InitStop /\ [][NextStop]_vars

-----------------------------------------------------------------------------
(* SpecDel: an album with media in c1 and delete updates for it *)

DelFlushes == 1
DelDeletes == 1

AlbumDeletes ==
    { [messageIds |-> {1}, channelId |-> "c1", deleteType |-> "manual"],
      [messageIds |-> {1, 2}, channelId |-> "c1", deleteType |-> "manual"] }

InitDel ==
    Constructed(Config(FALSE, TRUE, <<"c1">>),
                { Msg(1, "c1", "g1", <<"a">>, 11, "ok"), Msg(2, "c1", "g1", << >>, 12, "ok") },
                Budget(1, 0, 0, 0, 0, DelFlushes, DelDeletes, 0))

NextDel ==
    \/ StartBegin
    \/ StartDone
    \/ \E m \in inbox : Deliver(m)
    \/ \E o \in DOMAIN groups : TimerFire(o)
    \/ \E t \in DOMAIN flushes, ok \in BOOLEAN : FlushResume(t, ok)
    \/ \E r \in AlbumDeletes : DeleteBegin(r.messageIds, r.channelId, r.deleteType)
    \/ \E d \in DOMAIN deletes, ok \in BOOLEAN : DeleteResume(d, ok)

SpecDel == InitDel /\ [][NextDel]_vars

-----------------------------------------------------------------------------
(* SpecChan: standalone posts with the same upstream id in two channels and  *)
(* delete updates with and without a channel                                 *)

ChanDeletes == 2

ChannelDeletes ==
    { [messageIds |-> {1}, channelId |-> "c1", deleteType |-> "manual"],
      [messageIds |-> {2}, channelId |-> "", deleteType |-> "auto"],
      [messageIds |-> {3}, channelId |-> "", deleteType |-> "ttl"] }

InitChan ==
    Constructed(Config(FALSE, TRUE, <<"c1", "c2">>),
                { Msg(1, "c1", NoGroup, <<"a">>, 11, "ok"),
                  Msg(1, "c2", NoGroup, <<"b">>, 11, "none"),
                  Msg(2, "c2", NoGroup, << >>, 12, "ok") },
                Budget(1, 0, 0, 0, 0, 0, ChanDeletes, 0))

NextChan ==
    \/ StartBegin
    \/ StartDone
    \/ \E m \in inbox : Deliver(m)
    \/ \E s \in DOMAIN singles, ok \in BOOLEAN : SingleResume(s, ok)
    \/ \E r \in ChannelDeletes : DeleteBegin(r.messageIds, r.channelId, r.deleteType)
    \/ \E d \in DOMAIN deletes, ok \in BOOLEAN : DeleteResume(d, ok)

SpecChan == InitChan /\ [][NextChan]_vars

-----------------------------------------------------------------------------
(* SpecSync: an album in c1, deletions upstream, the cron job and the        *)
(* start-up sync                                                             *)

SyncPasses == 1
SyncTicks == 1
SyncUpstreamDeletes == 1

InitSync ==
    Constructed(Config(TRUE, TRUE, <<"c1">>),
                { Msg(1, "c1", "g1", <<"a">>, 11, "ok"), Msg(2, "c1", "g1", << >>, 12, "ok") },
                Budget(1, 0, 0, SyncTicks, SyncUpstreamDeletes, 1, 0, SyncPasses))

NextSync ==
    \/ StartBegin
    \/ StartDone
    \/ \E m \in inbox : Deliver(m)
    \/ \E o \in DOMAIN groups : TimerFire(o)
    \/ \E t \in DOMAIN flushes, ok \in BOOLEAN : FlushResume(t, ok)
    \/ \E c \in Channels, id \in 1..2 : UpstreamDelete(c, id)
    \/ CronTick
    \/ StartTimerFire
    \/ \E t \in DOMAIN passes, ok \in BOOLEAN : PassResume(t, ok)

SpecSync == InitSync /\ [][NextSync]_vars

-----------------------------------------------------------------------------
(* SpecRestart: two monitored channels, the cron job, the start-up sync,     *)
(* quickStop() and a second start()                                          *)

RestartStarts == 2
RestartPasses == 2

InitRestart ==
    Constructed(Config(TRUE, FALSE, <<"c1", "c2">>),
                {},
                Budget(RestartStarts, 1, 1, 1, 0, 0, 0, RestartPasses))

NextRestart ==
    \/ StartBegin
    \/ StartDone
    \/ CronTick
    \/ StartTimerFire
    \/ \E t \in DOMAIN passes, ok \in BOOLEAN : PassResume(t, ok)
    \/ QuickStop
    \/ StopBegin
    \/ \E outcome \in {"graceful", "error", "timeout"} : StopDisconnect(outcome)

SpecRestart == InitRestart /\ [][NextRestart]_vars

-----------------------------------------------------------------------------
(* Claims about the aggregator *)

RECURSIVE JoinAscending(_)
\* the texts of the messages of S, in ascending id order, joined by one space
JoinAscending(S) ==
    IF S = {} THEN << >>
    ELSE LET last == CHOOSE m \in S : \A n \in S : n.id <= m.id
             before == S \ {last}
         IN IF before = {} THEN last.text
            ELSE JoinAscending(before) \o <<" ">> \o last.text

ParentOf(t) == { p \in posts : p.id = FlushRowId(t, 0) }

\* C1: for a burst whose members have all arrived before a flush of it begins,
\* under any interleaving of timer expiry, arrivals and stop(), at most one
\* parent post is ever created, no buffer is flushed twice, and when the
\* flushing is over there is exactly one parent (isMediaGroup, no parent
\* reference) and every other row is a child of it with empty text
C1_OneParentPerBurst ==
    (\A t \in DOMAIN flushes : Len(flushes[t].arrived) = 2) =>
        LET parents == { p \in posts : p.isMediaGroup } IN
        /\ Cardinality(parents) <= 1
        /\ \A t, u \in DOMAIN flushes : flushes[t].obj = flushes[u].obj => t = u
        /\ (flushes # << >> /\ \A t \in DOMAIN flushes : flushes[t].pc = "done") =>
              /\ Cardinality(parents) = 1
              /\ \A p \in parents : p.parentMessageId = NoId
              /\ \A c \in posts \ parents :
                    /\ c.text = EmptyText /\ ~c.isMediaGroup
                    /\ \E p \in parents : c.parentMessageId = p.id

\* C2 (as amended): the text of the parent post written by a group flush is
\* the space-joined concatenation, in ascending upstream id order, of the
\* texts that are not blank (empty once trimmed) of the members buffered when
\* the flush begins, for every buffer content and arrival order
C2_ParentTextJoinsNonBlank ==
    \A t \in DOMAIN flushes : \A p \in ParentOf(t) :
        p.text = JoinAscending({ m \in Range(flushes[t].arrived) : Trim(m.text) # << >> })

\* a flush of three members that arrived out of id order, one text blank,
\* has written the parent with the two other texts in id order
C2_Witness ==
    \E t \in DOMAIN flushes :
        /\ flushes[t].pc = "done"
        /\ Len(flushes[t].arrived) = 3
        /\ flushes[t].arrived[1].id > flushes[t].arrived[2].id
        /\ \E m \in Range(flushes[t].arrived) : m.text = <<" ">>
        /\ \E p \in ParentOf(t) : p.text = <<"a", " ", "b">>

\* C2 as stated: the parent text joins the non-empty texts of the buffered members
C2_ParentTextJoinsNonEmpty ==
    \A t \in DOMAIN flushes : \A p \in ParentOf(t) :
        p.text = JoinAscending({ m \in Range(flushes[t].arrived) : m.text # << >> })

\* C3: the parent post carries the upstream id and the timestamp of the main
\* member: the first member with non-empty text (first by id or by arrival,
\* text non-empty as such or once trimmed), and the earliest-arrived member
\* when no member has text, for every arrival order
C3_MainIsFirstWithText ==
    \A t \in DOMAIN flushes : \A p \in ParentOf(t) :
        LET arrived == flushes[t].arrived
            FirstByArrival(Test(_)) ==
                { arrived[i] : i \in { j \in DOMAIN arrived :
                      Test(arrived[j]) /\ \A k \in 1..(j - 1) : ~Test(arrived[k]) } }
            FirstById(Test(_)) ==
                { m \in Range(arrived) :
                      Test(m) /\ \A n \in Range(arrived) : Test(n) => m.id <= n.id }
            NonEmpty(m) == m.text # << >>
            NonBlank(m) == Trim(m.text) # << >>
            mains == IF \E m \in Range(arrived) : NonEmpty(m)
                     THEN FirstByArrival(NonEmpty) \cup FirstById(NonEmpty)
                          \cup FirstByArrival(NonBlank) \cup FirstById(NonBlank)
                     ELSE { arrived[1] }
        IN \E m \in mains : p.messageId = m.id /\ p.date = m.date

-----------------------------------------------------------------------------
(* Claims about the deletion cascade *)

\* C4: when the handleDeletedMessages call that resolved a group parent
\* completes, the parent row is gone, no post referencing it as parent
\* remains, and no attachment owned by the parent or by one of its children
\* remains
C4_ParentDeletionTakesChildren ==
    [][\A d \in DOMAIN deletes :
          (deletes[d].pc = "main" /\ deletes'[d].pc = "done") =>
              \A r \in Range(deletes[d].messagesToDelete) :
                  r.isMediaGroup =>
                      /\ \A p \in posts' : p.id # r.id /\ p.parentMessageId # r.id
                      /\ \A a \in media' :
                            /\ a.messageId # r.id
                            /\ \A c \in posts : c.parentMessageId = r.id => a.messageId # c.id
      ]_vars

C6_HintScopesDeletion ==
    [][\A d \in DOMAIN deletes :
          (deletes[d].channelId # "" /\ deletes'[d] # deletes[d]) =>
              /\ \A r \in Range(deletes'[d].messagesToDelete) :
                    r.channelId = deletes[d].channelId
              /\ \A p \in posts \ posts' : p.channelId = deletes[d].channelId
      ]_vars

-----------------------------------------------------------------------------
(* Claims about reconciliation *)

ActivePasses == { t \in DOMAIN passes : passes[t].pc # "done" }

\* C7: at most one syncAllChannels pass is active at any time, under any
\* interleaving of cron ticks, the start-up sync, stop(), quickStop() and a
\* later start()
C7_AtMostOnePass == Cardinality(ActivePasses) <= 1

\* C8: isSyncing is set by a pass before its first upstream page fetch, it is
\* false in the state a pass ends in, whether every channel was reconciled or
\* a channel failed, and it is false whenever no pass is running, so that a
\* later request can run
C8_FlagAroundPass ==
    /\ [](\A t \in DOMAIN passes : passes[t].fetches > 0 => passes[t].flagSet)
    /\ []((ActivePasses = {}) => ~isSyncing)
    /\ [][\A t \in DOMAIN passes' :
             ( /\ passes'[t].pc = "done"
               /\ t \in DOMAIN passes => passes[t].pc # "done" ) => ~isSyncing'
         ]_vars

\* a pass that fetched a page for one channel and failed on the other is over
\* and the flag is down
C8_Witness ==
    \E t \in DOMAIN passes :
        /\ passes[t].pc = "done" /\ passes[t].flagSet
        /\ passes[t].fetches > 0 /\ passes[t].errorCount = 1 /\ passes[t].syncedCount = 1
        /\ ~isSyncing

C10_PassOnlyPrunes ==
    [][passes' # passes => (posts' \subseteq posts /\ media' \subseteq media)]_vars

\* a pass that fetched the ids 1 and 2 is over while the store holds no post
C10_Witness ==
    \E t \in DOMAIN passes :
        /\ passes[t].pc = "done" /\ passes[t].syncedCount = 1
        /\ passes[t].telegramMessages = {1, 2}
        /\ posts = {} /\ media = {}

-----------------------------------------------------------------------------
(* SpecPrune: four standalone posts in c1, deletions upstream, one pass *)

PrunePasses == 1
PruneUpstreamDeletes == 1

InitPrune ==
    Constructed(Config(TRUE, FALSE, <<"c1">>),
                { Msg(1, "c1", NoGroup, <<"a">>, 11, "none"),
                  Msg(2, "c1", NoGroup, <<"b">>, 12, "none"),
                  Msg(3, "c1", NoGroup, <<"a">>, 13, "none"),
                  Msg(4, "c1", NoGroup, <<"b">>, 14, "none") },
                Budget(1, 0, 0, 0, PruneUpstreamDeletes, 0, 0, PrunePasses))

NextPrune ==
    \/ StartBegin
    \/ StartDone
    \/ \E m \in inbox : Deliver(m)
    \/ \E s \in DOMAIN singles, ok \in BOOLEAN : SingleResume(s, ok)
    \/ \E id \in 1..4 : UpstreamDelete("c1", id)
    \/ StartTimerFire
    \/ \E t \in DOMAIN passes, ok \in BOOLEAN : PassResume(t, ok)

SpecPrune == InitPrune /\ [][NextPrune]_vars

\* C11: when syncChannel completes for a channel and every row of the channel
\* in the store was there when it was called (no row ingested meanwhile is
\* left), the rows of the channel are exactly the rows it held at the call
\* whose upstream id is in the fetched id set: with upstream ids {1,2,3} and
\* local ids {1,2,3,4} the post for id 4 alone is deleted
C11_PassLeavesFetchedIds ==
    [][\A t \in DOMAIN passes :
          LET p == passes[t]
              kept == { m \in posts' : m.channelId = p.channelId }
          IN ( /\ p.pc \in {"select", "deleteMain"} /\ passes'[t].pc = "chanDelay"
               /\ kept \subseteq p.before ) =>
                 kept = { m \in p.before : m.messageId \in p.telegramMessages }
      ]_vars

\* a pass is over that fetched {1,2,3} while the store held the posts for
\* 1, 2, 3 and 4, and the posts for 1, 2 and 3 are left
C11_Witness ==
    \E t \in DOMAIN passes :
        /\ passes[t].pc = "done" /\ passes[t].syncedCount = 1
        /\ passes[t].telegramMessages = {1, 2, 3}
        /\ { m.messageId : m \in passes[t].before } = {1, 2, 3, 4}
        /\ { m.messageId : m \in posts } = {1, 2, 3}

\* C12: every pass of syncChannel that has removed at least one drifted post
\* has produced the posts-deleted event (messagesDeleted) of the deletion
\* cascade handler, with the cause reconciliation-prune
C12_PruneEmitsPostsDeleted ==
    \A t \in DOMAIN passes :
        (passes[t].pc \in {"chanDelay", "done"} /\ passes[t].messagesToDelete # << >>) =>
            \E e \in BagToSet(events) :
                e.type = "messagesDeleted" /\ e.cause = "reconciliation-prune"

\* C13: a pass takes the monitored channels in their order, one at a time and
\* each once: the channels left are the tail of the list behind the current
\* one, every channel behind it was counted once as synced or as an error,
\* and the pass ends with syncedCount + errorCount = totalChannels, which is
\* what its completion event reports
C13_EveryChannelOnce ==
    \A t \in DOMAIN passes :
        LET p == passes[t]
            all == config.allowedChannels
            done == p.totalChannels - Len(p.rest)
            current == IF p.pc \in {"done", "chanDelay"} THEN 0 ELSE 1
        IN /\ p.totalChannels = Len(all)
           /\ p.rest = SubSeq(all, done + 1, Len(all))
           /\ p.syncedCount + p.errorCount + current = done
           /\ (current = 1 \/ p.pc = "chanDelay") => p.channelId = all[done]
           /\ p.pc = "done" =>
                 /\ p.syncedCount + p.errorCount = p.totalChannels
                 /\ \E e \in BagToSet(events) :
                       e.type = "fullSyncCompleted" /\ e.count = p.syncedCount

\* a pass over two channels is over: the first channel failed, the second was
\* reconciled, and the completion event was emitted
C13_Witness ==
    \E t \in DOMAIN passes :
        /\ passes[t].pc = "done" /\ passes[t].totalChannels = 2
        /\ passes[t].errorCount = 1 /\ passes[t].syncedCount = 1
        /\ \E e \in BagToSet(events) : e.type = "syncError" /\ e.channelId = "c1"
        /\ \E e \in BagToSet(events) : e.type = "channelSynced" /\ e.channelId = "c2"
        /\ \E e \in BagToSet(events) : e.type = "fullSyncCompleted" /\ e.count = 1

-----------------------------------------------------------------------------
(* MessageService: the navigation queries.  A query with limit(1) whose     *)
(* order leaves several rows first may return any of them, so a query is    *)
(* the set of the values it can return; NoPost is null.                      *)

NoPost == Post(NoId, "", 0, EmptyText, 0, NoGroup, FALSE, NoId)

\* the condition lets every row without a parent through
ValidAnyTopLevel(m) == m.parentMessageId = NoId

\* lines 41-61 (text is never null: the ingestors write message.message || "")
getValidMessageCondition(m) ==
    /\ m.parentMessageId = NoId
    /\ \/ m.text # EmptyText
       \/ m.parentMessageId = NoId /\ \E r \in media : r.messageId = m.id

\* orderBy(asc(messages.date)).limit(1) and orderBy(desc(messages.date)).limit(1)
AscLimit1(rows) == { m \in rows : \A n \in rows : m.date <= n.date }
DescLimit1(rows) == { m \in rows : \A n \in rows : n.date <= m.date }

\* lines 75-77, 92-94, 114-116, 136-138
OrNull(rows) == IF rows = {} THEN {NoPost} ELSE rows

\* the query selects among all the rows of the channel
FirstOfAllRows(channelId) ==
    OrNull(AscLimit1({ m \in posts : m.channelId = channelId }))

\* lines 63-78
getFirstMessageByChannelId(channelId) ==
    OrNull(AscLimit1({ m \in posts :
        m.channelId = channelId /\ getValidMessageCondition(m) }))

\* lines 80-95
getLastMessageByChannelId(channelId) ==
    OrNull(DescLimit1({ m \in posts :
        m.channelId = channelId /\ getValidMessageCondition(m) }))

\* lines 97-117
getNextMessage(channelId, currentDate) ==
    OrNull(AscLimit1({ m \in posts :
        m.channelId = channelId /\ m.date > currentDate /\ getValidMessageCondition(m) }))

\* lines 119-139
getPreviousMessage(channelId, currentDate) ==
    OrNull(DescLimit1({ m \in posts :
        m.channelId = channelId /\ m.date < currentDate /\ getValidMessageCondition(m) }))

\* lines 214-223
getMessageCount(channelId) ==
    Cardinality({ m \in posts : m.channelId = channelId /\ getValidMessageCondition(m) })

\* lines 225-241
getMessagePosition(channelId, messageDate) ==
    Cardinality({ m \in posts :
        m.channelId = channelId /\ m.date < messageDate /\ getValidMessageCondition(m) }) + 1

-----------------------------------------------------------------------------
(* SpecNav: two standalone posts of the same second and an album without    *)
(* text in c1, media downloads that may fail                                *)

NavFlushes == 1

NavDates == 10..13

InitNav ==
    Constructed(Config(FALSE, TRUE, <<"c1">>),
                { Msg(1, "c1", NoGroup, <<"a">>, 11, "none"),
                  Msg(2, "c1", NoGroup, <<"b">>, 11, "none"),
                  Msg(3, "c1", "g1", << >>, 12, "ok"),
                  Msg(4, "c1", "g1", << >>, 12, "ok") },
                Budget(1, 0, 0, 0, 0, NavFlushes, 0, 0))

NextNav ==
    \/ StartBegin
    \/ StartDone
    \/ \E m \in inbox : Deliver(m)
    \/ \E s \in DOMAIN singles, ok \in BOOLEAN : SingleResume(s, ok)
    \/ \E o \in DOMAIN groups : TimerFire(o)
    \/ \E t \in DOMAIN flushes, ok \in BOOLEAN : FlushResume(t, ok)

SpecNav == InitNav /\ [][NextNav]_vars

-----------------------------------------------------------------------------
(* Claims about navigation *)

Answers(channelId, date) ==
    getNextMessage(channelId, date) \cup getPreviousMessage(channelId, date)
    \cup getFirstMessageByChannelId(channelId) \cup getLastMessageByChannelId(channelId)

HasMedia(m) == \E r \in media : r.messageId = m.id

\* C14: in every reachable store state, a post returned by getNextMessage,
\* getPreviousMessage, getFirstMessageByChannelId or getLastMessageByChannelId
\* is a stored post that has text or a media attachment and has no parent
\* reference
C14_NavigationSkipsInvalid ==
    \A c \in Channels, d \in NavDates : \A r \in Answers(c, d) :
        r # NoPost =>
            /\ r \in posts
            /\ r.parentMessageId = NoId
            /\ ~(r.text = EmptyText /\ ~HasMedia(r))

\* the store holds a group child and a parent without text and without media,
\* and the queries still answer with the standalone posts
C14_Witness ==
    /\ \E m \in posts : m.parentMessageId # NoId
    /\ \E m \in posts : m.isMediaGroup /\ m.text = EmptyText /\ ~HasMedia(m)
    /\ \E r \in getLastMessageByChannelId("c1") : r.text = <<"b">>
    /\ \E r \in getPreviousMessage("c1", 13) : r.text = <<"a">>
    /\ getNextMessage("c1", 11) = {NoPost}

\* C15: for every channel and every valid post p of it, getMessagePosition at
\* p's timestamp plus the number of valid posts strictly after it equals
\* getMessageCount, also when valid posts share a timestamp
C15_PositionPlusRestIsCount ==
    \A c \in Channels : \A p \in posts :
        (p.channelId = c /\ p.parentMessageId = NoId /\ (p.text # EmptyText \/ HasMedia(p))) =>
            getMessagePosition(c, p.date)
              + Cardinality({ q \in posts :
                    /\ q.channelId = c /\ q.date > p.date /\ q.parentMessageId = NoId
                    /\ (q.text # EmptyText \/ HasMedia(q)) })
              = getMessageCount(c)

\* C16: getNextMessage returns the valid post after t that is least by
\* (timestamp, upstream message id), getPreviousMessage the valid post before
\* t that is greatest by that order, so the answer is unique when timestamps tie
C16_NearestByDateThenId ==
    \A c \in Channels, d \in NavDates :
        LET valid == { q \in posts : q.channelId = c /\ q.parentMessageId = NoId
                                     /\ (q.text # EmptyText \/ HasMedia(q)) }
            Before(x, y) == x.date < y.date \/ (x.date = y.date /\ x.messageId <= y.messageId)
        IN /\ \A r \in getNextMessage(c, d) :
                 r # NoPost => \A q \in valid : q.date > d => Before(r, q)
           /\ \A r \in getPreviousMessage(c, d) :
                 r # NoPost => \A q \in valid : q.date < d => Before(q, r)
           /\ Cardinality(getNextMessage(c, d)) = 1
           /\ Cardinality(getPreviousMessage(c, d)) = 1

\* C17: getFirstMessageByChannelId answers null exactly when the channel has
\* no valid post (group children and rows without text and media do not
\* count), and getNextMessage and getPreviousMessage answer null exactly when
\* no valid post lies after, respectively before, the timestamp
C17_NullWhenNothingValid ==
    \A c \in Channels :
        LET valid == { q \in posts : q.channelId = c /\ q.parentMessageId = NoId
                                     /\ (q.text # EmptyText \/ HasMedia(q)) }
        IN /\ (NoPost \in getFirstMessageByChannelId(c)) <=> (valid = {})
           /\ (valid = {}) => getFirstMessageByChannelId(c) = {NoPost}
           /\ \A d \in NavDates :
                 /\ (NoPost \in getNextMessage(c, d)) <=> ({ q \in valid : q.date > d } = {})
                 /\ (NoPost \in getPreviousMessage(c, d)) <=> ({ q \in valid : q.date < d } = {})

\* c1 holds the parent, without text and with no media stored, and the
\* child of the album and nothing else: the first post is null
C17_Witness ==
    /\ Cardinality(posts) = 2
    /\ \E m \in posts : m.channelId = "c1" /\ m.parentMessageId # NoId
    /\ \A m \in posts : m.text = EmptyText /\ ~HasMedia(m)
    /\ getFirstMessageByChannelId("c1") = {NoPost}
    /\ getPreviousMessage("c1", 13) = {NoPost}

-----------------------------------------------------------------------------
(* SpecQuick: one album of two messages, timers, quickStop() *)

QuickFlushes == 2

InitQuick ==
    Constructed(Config(FALSE, TRUE, <<"c1">>),
                { Msg(1, "c1", "g1", <<"a">>, 11, "ok"), Msg(2, "c1", "g1", << >>, 12, "ok") },
                Budget(1, 0, 1, 0, 0, QuickFlushes, 0, 0))

NextQuick ==
    \/ StartBegin
    \/ StartDone
    \/ \E m \in inbox : Deliver(m)
    \/ \E o \in DOMAIN groups : TimerFire(o)
    \/ \E t \in DOMAIN flushes, ok \in BOOLEAN : FlushResume(t, ok)
    \/ QuickStop

SpecQuick == InitQuick /\ [][NextQuick]_vars

Stopped == Event("stopped", "", {}, 0, "")

\* C18: however the service was stopped, once the connection is released every
\* member that was in a pending group buffer has its row in the store: the
\* buffers were flushed before, none was dropped
C18_StopFlushesBuffers ==
    (~connected /\ CopiesIn(Stopped, events) > 0) =>
        \A o \in DOMAIN groups : \A m \in Range(groups[o].arrived) :
            \E p \in posts : p.channelId = groups[o].channelId /\ p.messageId = m.id

-----------------------------------------------------------------------------
(* SpecStopFair: SpecStop with flushes enough for every buffer, where every  *)
(* awaited store operation completes and the disconnect is answered,         *)
(* rejected or timed out after 5 s                                           *)

FairFlushes == 4

InitStopFair ==
    Constructed(Config(FALSE, FALSE, <<"c1">>),
                { Msg(1, "c1", "g1", <<"a">>, 11, "ok"), Msg(2, "c1", "g1", << >>, 12, "ok") },
                Budget(1, 1, 0, 0, 0, FairFlushes, 0, 0))

SpecStopFair ==
    /\ InitStopFair /\ [][NextStop]_vars
    /\ WF_vars(\E t \in DOMAIN flushes, ok \in BOOLEAN : FlushResume(t, ok))
    /\ WF_vars(\E outcome \in {"graceful", "error", "timeout"} : StopDisconnect(outcome))

\* C19: a stop() that has begun on a started service ends: it reaches the
\* stopped state (isStarted false, the connection gone), and whichever way
\* the disconnect ends (answered, rejected, not answered within 5 s) the
\* step that ends stop() leaves the service stopped
C19_StopTerminates ==
    /\ (stopPc # "idle") ~> (stopPc = "idle" /\ ~isStarted /\ ~connected)
    /\ [][(stopPc = "disconnect" /\ stopPc' = "idle") => (~isStarted' /\ ~connected')]_vars

\* stop() flushed a buffer, the disconnect was not answered, and the service
\* is stopped after forceStop and the finally block
C19_Witness ==
    /\ stopPc = "idle" /\ ~isStarted /\ ~connected /\ budget.stop = 0
    /\ CopiesIn(Stopped, events) = 2
    /\ \E t \in DOMAIN flushes : flushes[t].byStop /\ flushes[t].pc = "done"

-----------------------------------------------------------------------------
(* SpecDup: standalone messages whose updates are delivered again *)

DupSingles == 3

InitDup ==
    Constructed(Config(FALSE, TRUE, <<"c1">>),
                { Msg(1, "c1", NoGroup, <<"a">>, 11, "ok"),
                  Msg(2, "c1", NoGroup, <<"b">>, 12, "none") },
                Budget(1, 0, 0, 0, 0, 0, 0, 0))

NextDup ==
    \/ StartBegin
    \/ StartDone
    \/ \E m \in inbox : Deliver(m)
    \/ \E s \in DOMAIN singles : Redeliver(s, DupSingles)
    \/ \E s \in DOMAIN singles, ok \in BOOLEAN : SingleResume(s, ok)

SpecDup == InitDup /\ [][NextDup]_vars

\* C20: ingesting an ungrouped message whose (channel id, upstream message id)
\* is stored already changes nothing: the store holds one post for the pair
\* at most and no error event is emitted
C20_DuplicateIngestIsNoOp ==
    /\ \A p, q \in posts :
          (p.channelId = q.channelId /\ p.messageId = q.messageId) => p = q
    /\ \A e \in BagToSet(events) : e.type # "error"

-----------------------------------------------------------------------------
(* Claims about the invariants of the store *)

\* C21: in every reachable state no two stored posts share the same
\* (channel id, upstream message id)
C21_UniqueChannelMessageId ==
    \A p, q \in posts :
        (p.channelId = q.channelId /\ p.messageId = q.messageId) => p.id = q.id

TopLevel(channelId) == { q \in posts : q.channelId = channelId /\ q.parentMessageId = NoId }

\* C22: in every reachable state a stored post with a parent reference has
\* empty text, is returned by no navigation query, and is counted neither by
\* getMessageCount nor by getMessagePosition
C22_ChildrenEmptyAndHidden ==
    /\ \A p \in posts :
          p.parentMessageId # NoId =>
              /\ p.text = EmptyText
              /\ \A c \in Channels, d \in NavDates : p \notin Answers(c, d)
    /\ \A c \in Channels :
          /\ getMessageCount(c) <= Cardinality(TopLevel(c))
          /\ \A d \in NavDates :
                getMessagePosition(c, d) - 1
                    <= Cardinality({ q \in TopLevel(c) : q.date < d })

\* an album of three members that all carry text is stored: the two children
\* have empty text, the queries answer with the parent and count one post
C22_Witness ==
    \E t \in DOMAIN flushes :
        /\ flushes[t].pc = "done"
        /\ \A m \in Range(flushes[t].arrived) : m.text \in {<<"a">>, <<"b">>}
        /\ Cardinality({ p \in posts : p.parentMessageId = FlushRowId(t, 0) }) = 2
        /\ getMessageCount("c1") = 1
        /\ getLastMessageByChannelId("c1") = ParentOf(t)
        /\ getNextMessage("c1", 10) = ParentOf(t)

-----------------------------------------------------------------------------
(* Claims about the flush of a group *)

\* the media rows flush t has stored
StoredBy(t) ==
    { r \in media : \E i \in DOMAIN groups[flushes[t].obj].messages : r.id = FlushRowId(t, i) }

\* C23: every media attachment a finished group flush has stored for a member is owned
\* by the post row of that member: the media of a child member is attached to
\* the child's row, not to the parent's
C23_MediaOwnedByMemberRow ==
    \A t \in DOMAIN flushes : \A m \in Range(flushes[t].arrived) : \A r \in media :
        (flushes[t].pc = "done" /\ r \in StoredBy(t) /\ r.fileId = m.id) =>
            \E p \in posts : p.id = r.messageId /\ p.messageId = m.id

\* C24: a flush ends as a success whichever of its downloads failed: the
\* parent row and the child row of every other buffered member are stored,
\* the newMessage event carries the number of attachments stored, and the
\* step that ends the flush removes the buffer from the pending map
C24_MediaFailureKeepsFlush ==
    /\ [](\A t \in DOMAIN flushes :
            LET f == flushes[t] IN
            /\ f.pc # "failed"
            /\ f.pc = "done" =>
                  /\ \E p \in posts : p.id = FlushRowId(t, 0) /\ p.messageId = f.mainMessage.id
                  /\ \A m \in Range(groups[f.obj].messages) :
                        m.id # f.mainMessage.id =>
                            \E p \in posts : /\ p.messageId = m.id
                                             /\ p.parentMessageId = FlushRowId(t, 0)
                  /\ CopiesIn(Event("newMessage", f.channelId, {f.mainMessage.id},
                                    Cardinality(StoredBy(t)), "group"), events) > 0)
    /\ [][\A t \in DOMAIN flushes :
             (flushes[t].pc # "done" /\ flushes'[t].pc = "done") =>
                 ~MapHas(pendingMediaGroups', flushes[t].key)
         ]_vars

\* a flush of two members is over: one download failed, one attachment is
\* stored, both rows are there and the event counts one attachment
C24_Witness ==
    \E t \in DOMAIN flushes :
        /\ flushes[t].pc = "done" /\ Len(flushes[t].arrived) = 2
        /\ Cardinality(StoredBy(t)) = 1
        /\ Cardinality({ p \in posts : p.groupedId = "g1" }) = 2
        /\ CopiesIn(Event("newMessage", "c1", {flushes[t].mainMessage.id}, 1, "group"), events) = 1
        /\ ~MapHas(pendingMediaGroups, flushes[t].key)

InFlight == {"insertParent", "media", "child"}

\* C25: a group message delivered while a flush of its (channel, group key) is
\* in progress leaves the buffer being flushed as it is and starts a new
\* pending buffer under the key, with a timer of its own
C25_ArrivalDuringFlushStartsNewBuffer ==
    [][\A t \in DOMAIN flushes : \A m \in inbox \ inbox' :
          ( /\ flushes[t].pc \in InFlight
            /\ m.media # "none"
            /\ GroupKey(m.channelId, m.groupedId) = flushes[t].key ) =>
              /\ groups'[flushes[t].obj].messages = groups[flushes[t].obj].messages
              /\ m.id \in DOMAIN groups' \ DOMAIN groups
              /\ groups'[m.id].timeout
              /\ MapGet(pendingMediaGroups', flushes[t].key) = m.id
      ]_vars

-----------------------------------------------------------------------------
(* SpecTimer: one album of three messages whose members may arrive while    *)
(* flushes of the album are in progress                                     *)

TimerFlushes == 2

InitTimer ==
    Constructed(Config(FALSE, FALSE, <<"c1">>),
                { Msg(1, "c1", "g1", <<"a">>, 11, "ok"), Msg(2, "c1", "g1", << >>, 12, "ok"),
                  Msg(3, "c1", "g1", << >>, 13, "ok") },
                Budget(1, 0, 0, 0, 0, TimerFlushes, 0, 0))

NextTimer ==
    \/ StartBegin
    \/ StartDone
    \/ \E m \in inbox : Deliver(m)
    \/ \E o \in DOMAIN groups : TimerFire(o)
    \/ \E t \in DOMAIN flushes, ok \in BOOLEAN : FlushResume(t, ok)

SpecTimer == InitTimer /\ [][NextTimer]_vars

\* C26: a buffer has one timer, replaced at every arrival, so the timer that
\* fires was armed by the latest arrival, a window before; every buffer in
\* the pending map that is not being flushed has that timer armed, and no
\* timer is armed for a buffer whose key is not in the pending map
C26_OneTimerPerPendingGroup ==
    \A o \in DOMAIN groups :
        LET pending == \E i \in DOMAIN pendingMediaGroups : pendingMediaGroups[i][2] = o
            flushing == \E t \in DOMAIN flushes :
                            flushes[t].obj = o /\ flushes[t].pc \in InFlight
        IN /\ (pending /\ ~flushing) => groups[o].timeout
           /\ groups[o].timeout =>
                 MapHas(pendingMediaGroups, GroupKey(groups[o].channelId, groups[o].groupedId))

-----------------------------------------------------------------------------
(* SpecPair: two albums of c1 with different group keys, flushed at the     *)
(* same time                                                                *)

PairFlushes == 2

InitPair ==
    Constructed(Config(FALSE, TRUE, <<"c1">>),
                { Msg(1, "c1", "g1", <<"a">>, 11, "ok"), Msg(2, "c1", "g1", << >>, 11, "ok"),
                  Msg(3, "c1", "g2", << >>, 12, "ok"), Msg(4, "c1", "g2", <<"b">>, 12, "ok") },
                Budget(1, 0, 0, 0, 0, PairFlushes, 0, 0))

NextPair ==
    \/ StartBegin
    \/ StartDone
    \/ \E m \in inbox : Deliver(m)
    \/ \E o \in DOMAIN groups : TimerFire(o)
    \/ \E t \in DOMAIN flushes, ok \in BOOLEAN : FlushResume(t, ok)

SpecPair == InitPair /\ [][NextPair]_vars

\* a row without its row id, the parent named by its upstream message id
Shape(p, ps) ==
    [channelId |-> p.channelId, messageId |-> p.messageId, text |-> p.text,
     date |-> p.date, groupedId |-> p.groupedId, isMediaGroup |-> p.isMediaGroup,
     parent |-> IF p.parentMessageId = NoId THEN 0
                ELSE LET qs == { q \in ps : q.id = p.parentMessageId }
                     IN IF qs = {} THEN -1 ELSE (CHOOSE q \in qs : TRUE).messageId]

\* what flush t stores when it runs alone on its buffer
AloneRows(t) ==
    LET f == flushes[t]
        parent == ParentRow(f, 1)
        rows == {parent} \cup { ChildRow([f EXCEPT !.createdMsg = 1], m, 2) :
                                  m \in { x \in Range(groups[f.obj].messages) :
                                            x.id # f.mainMessage.id } }
    IN { Shape(r, {parent}) : r \in rows }

\* C27: a step of a flush leaves every buffer but its own, and every entry of
\* the pending map under another key, as it was, adds only rows of its own
\* channel and group key and attachments of its own parent row, and removes
\* nothing; when flushes of different keys have run interleaved, the store
\* holds what the flushes store when they run one after another
C27_FlushesOfOtherKeysIndependent ==
    /\ [][\A t \in DOMAIN flushes :
             flushes'[t] # flushes[t] =>
                 LET f == flushes[t] IN
                 /\ \A o \in DOMAIN groups : o # f.obj => groups'[o] = groups[o]
                 /\ \A e \in Range(pendingMediaGroups) :
                       e[1] # f.key => e \in Range(pendingMediaGroups')
                 /\ Range(pendingMediaGroups') \subseteq Range(pendingMediaGroups)
                 /\ posts \subseteq posts' /\ media \subseteq media'
                 /\ \A p \in posts' \ posts :
                       p.channelId = f.channelId /\ p.groupedId = f.groupedId
                 /\ \A r \in media' \ media : r.messageId = FlushRowId(t, 0)
         ]_vars
    /\ []( ( /\ \A t \in DOMAIN flushes : flushes[t].pc = "done"
             /\ \A t, u \in DOMAIN flushes : flushes[t].key = flushes[u].key => t = u )
           => { Shape(p, posts) : p \in posts } = UNION { AloneRows(t) : t \in DOMAIN flushes } )

\* the flushes of g1 and g2 are both between two awaits, each has stored its
\* parent row, and an attachment is stored
C27_Witness ==
    /\ Len(flushes) = 2 /\ flushes[1].key # flushes[2].key
    /\ \A t \in DOMAIN flushes :
          /\ flushes[t].pc \in {"media", "child"}
          /\ \E p \in posts : p.id = FlushRowId(t, 0)
    /\ media # {}

-----------------------------------------------------------------------------
(* SpecRoute: updates with and without a group key, with and without media *)

RouteFlushes == 1

RouteUpdates ==
    { Msg(1, "c1", "g1", <<"a">>, 11, "ok"), Msg(2, "c1", "g1", <<"b">>, 12, "none"),
      Msg(3, "c1", NoGroup, <<"a">>, 13, "none"), Msg(4, "c1", NoGroup, << >>, 14, "ok") }

InitRoute ==
    Constructed(Config(FALSE, TRUE, <<"c1">>), RouteUpdates,
                Budget(1, 0, 0, 0, 0, RouteFlushes, 0, 0))

NextRoute ==
    \/ StartBegin
    \/ StartDone
    \/ \E m \in inbox : Deliver(m)
    \/ \E s \in DOMAIN singles, ok \in BOOLEAN : SingleResume(s, ok)
    \/ \E o \in DOMAIN groups : TimerFire(o)
    \/ \E t \in DOMAIN flushes, ok \in BOOLEAN : FlushResume(t, ok)

SpecRoute == InitRoute /\ [][NextRoute]_vars

\* C28: every delivered update that carries a group key is in the pending
\* buffer of its (channel id, group key) or was flushed from it, and
\* handleSingleMessage is given updates without a group key only, so no update
\* with a group key is stored as a standalone post
C28_GroupedUpdatesAreBuffered ==
    /\ \A m \in RouteUpdates \ inbox :
          m.groupedId # NoGroup =>
              \E o \in DOMAIN groups :
                  /\ m \in Range(groups[o].arrived)
                  /\ groups[o].channelId = m.channelId /\ groups[o].groupedId = m.groupedId
    /\ \A s \in DOMAIN singles : singles[s].message.groupedId = NoGroup
    /\ \A p \in posts : \A m \in RouteUpdates :
          (p.messageId = m.id /\ m.groupedId # NoGroup) => p.groupedId = m.groupedId

-----------------------------------------------------------------------------
(* Claims about flushes that interleave with deletions *)

\* C29: in every reachable state every post with a parent reference points
\* to a stored post of the same channel and group key
C29_NoOrphanedChildren ==
    \A c \in posts :
        c.parentMessageId # NoId =>
            \E p \in posts :
                /\ p.id = c.parentMessageId
                /\ p.channelId = c.channelId /\ p.groupedId = c.groupedId

\* C30: the step that ends a handleDeletedMessages call that resolved posts
\* emits one messagesDeleted event, with the cause the call was given and with
\* the number of the resolved posts the call has removed as its count, and no
\* other step of the call emits such an event
C30_OneEventWithCauseAndCount ==
    [][\A d \in DOMAIN deletes :
          LET h == deletes[d]
              removed == { r \in Range(h.messagesToDelete) : r \notin posts' }
          IN /\ (h.pc = "main" /\ deletes'[d].pc = "done") =>
                    events' = Emit(events, Event("messagesDeleted", h.channelId, h.messageIds,
                                                 Cardinality(removed), h.deleteType))
             /\ (h.pc # "main" /\ deletes'[d] # h) =>
                    \A e \in BagToSet(events') :
                        e.type = "messagesDeleted" => CopiesIn(e, events') = CopiesIn(e, events)
      ]_vars

-----------------------------------------------------------------------------
(* Claims about failures and frames of the deletion cascade *)

\* C31: a handleDeletedMessages call in which the removal of a media file
\* from the disk fails raises no error (it never takes the failure path and
\* no error event is emitted), the step with the failure removes the
\* attachment rows of its post all the same, the call goes on to delete the
\* children of each resolved post, and when it has returned no resolved post
\* and no attachment of a resolved post is left
C31_UnlinkFailureKeepsCascade ==
    /\ [](\A d \in DOMAIN deletes : deletes[d].pc # "failed")
    /\ [](\A e \in BagToSet(events) : e.type # "error")
    /\ [](\A d \in DOMAIN deletes :
            (deletes[d].pc = "done" /\ deletes[d].unlinkFailed) =>
                \A r \in Range(deletes[d].messagesToDelete) :
                    /\ r \notin posts
                    /\ \A a \in media : a.messageId # r.id)
    /\ [][\A d \in DOMAIN deletes :
             LET h == deletes[d] IN
             /\ (h.pc = "media" /\ deletes'[d] # h) =>
                   /\ \A a \in media' : a.messageId # h.messagesToDelete[h.i].id
                   /\ deletes'[d].pc \in {"media", "children"}
             /\ (h.pc = "children" /\ deletes'[d] # h) =>
                   \A p \in posts' : p.parentMessageId # h.messagesToDelete[h.i].id
         ]_vars

\* the deletion of a stored album has returned: a file of the parent could
\* not be removed from the disk, and the store holds no post and no attachment
C31_Witness ==
    \E d \in DOMAIN deletes :
        /\ deletes[d].pc = "done" /\ deletes[d].unlinkFailed
        /\ Len(deletes[d].messagesToDelete) = 2
        /\ \E r \in Range(deletes[d].messagesToDelete) : r.isMediaGroup
        /\ posts = {} /\ media = {}
        /\ CopiesIn(Event("messagesDeleted", "c1", {1, 2}, 1, "manual"), events) = 1

-----------------------------------------------------------------------------
(* SpecOwn: an album with media in c1 that is deleted by a delete update,   *)
(* by deleteMessage and by a reconciliation pass while it is being stored   *)

OwnFlushes == 1
OwnDeletes == 1
OwnPasses == 1
OwnUpstreamDeletes == 1

InitOwn ==
    Constructed(Config(TRUE, TRUE, <<"c1">>),
                { Msg(1, "c1", "g1", <<"a">>, 11, "ok"), Msg(2, "c1", "g1", << >>, 12, "ok") },
                Budget(1, 0, 0, 0, OwnUpstreamDeletes, OwnFlushes, OwnDeletes, OwnPasses))

NextOwn ==
    \/ StartBegin
    \/ StartDone
    \/ \E m \in inbox : Deliver(m)
    \/ \E o \in DOMAIN groups : TimerFire(o)
    \/ \E t \in DOMAIN flushes, ok \in BOOLEAN : FlushResume(t, ok)
    \/ DeleteBegin({1}, "c1", "manual")
    \/ \E d \in DOMAIN deletes, ok \in BOOLEAN : DeleteResume(d, ok)
    \/ \E r \in posts : DeleteMessageBegin(r.id)
    \/ \E d \in DOMAIN deletes : DeleteMessageResume(d)
    \/ UpstreamDelete("c1", 1)
    \/ StartTimerFire
    \/ \E t \in DOMAIN passes, ok \in BOOLEAN : PassResume(t, ok)

SpecOwn == InitOwn /\ [][NextOwn]_vars

\* C32: in every reachable state every attachment row is owned by a stored
\* post, whether posts are destroyed by a delete update, by deleteMessage or
\* by a reconciliation pass, and whether or not a post is deleted while its
\* media is being fetched
C32_AttachmentsHaveOwner ==
    \A a \in media : \E p \in posts : p.id = a.messageId

\* the parent of the album was deleted while the flush was fetching media:
\* the flush is over, it has stored no attachment, and none is left
C32_Witness ==
    \E t \in DOMAIN flushes :
        /\ flushes[t].pc = "done" /\ flushes[t].mediaPaths = 0
        /\ ParentOf(t) = {}
        /\ media = {}
        /\ \E d \in DOMAIN deletes : deletes[d].pc = "done" /\ deletes[d].deletedCount > 0

\* C33: a stored post never changes: across every step a post row either is
\* still stored with the same channel id, message id, text, timestamp, group
\* key, group-parent flag and parent reference, or no row with its id is left
C33_PostsNeverMutated ==
    [][\A p \in posts : \A q \in posts' : q.id = p.id => q = p]_vars

\* the album has been flushed with a child row, a deletion has removed rows,
\* a reconciliation pass has run, and a post is still stored
C33_Witness ==
    /\ \E t \in DOMAIN flushes : flushes[t].pc = "done" /\ \E p \in posts : p.parentMessageId # NoId
    /\ \E d \in DOMAIN deletes : deletes[d].pc = "done" /\ deletes[d].deletedCount > 0
    /\ \E t \in DOMAIN passes : passes[t].pc = "done" /\ posts # {}

\* the rows stored for a member of an album
RowsOf(m) == { p \in posts : p.channelId = m.channelId /\ p.messageId = m.id }

\* C34: every group member accepted by handleMediaGroupMessage is persisted as
\* exactly one row: it never has more than one row, and once no timer of a
\* buffer is armed and no flush is in progress it has one
C34_AcceptedMemberPersistedOnce ==
    \A o \in DOMAIN groups : \A k \in DOMAIN groups[o].arrived :
        LET m == groups[o].arrived[k] IN
        /\ Cardinality(RowsOf(m)) <= 1
        /\ ( /\ \A g \in DOMAIN groups : ~groups[g].timeout
             /\ \A t \in DOMAIN flushes : flushes[t].pc \notin InFlight )
           => Cardinality(RowsOf(m)) = 1

-----------------------------------------------------------------------------
(* SpecFresh: a reconciliation pass over a channel in which a message is    *)
(* published while the pass is running                                      *)

FreshPasses == 1

\* lines 69-90: the channel's owner publishes a message: it exists upstream from
\* now on, and its UpdateNewChannelMessage is on its way to the client
UpstreamPublish(message) ==
    /\ message.id \notin upstream[message.channelId]
    /\ message \notin inbox
    /\ upstream' = [upstream EXCEPT ![message.channelId] = @ \cup {message.id}]
    /\ inbox' = inbox \cup {message}
    /\ UNCHANGED <<posts, media, pendingMediaGroups, groups, flushes, singles,
                   deletes, passes, config, isStarted, startPromise, isSyncing, cronJob,
                   starting, connected, startTimers, stopPc, budget, events>>

InitFresh ==
    Constructed(Config(TRUE, FALSE, <<"c1">>),
                { Msg(1, "c1", NoGroup, <<"a">>, 11, "none"),
                  Msg(2, "c1", NoGroup, <<"b">>, 12, "none") },
                Budget(1, 0, 0, 0, 0, 0, 0, FreshPasses))

NextFresh ==
    \/ StartBegin
    \/ StartDone
    \/ \E m \in inbox : Deliver(m)
    \/ \E s \in DOMAIN singles, ok \in BOOLEAN : SingleResume(s, ok)
    \/ UpstreamPublish(Msg(3, "c1", NoGroup, <<"a">>, 13, "none"))
    \/ StartTimerFire
    \/ \E t \in DOMAIN passes, ok \in BOOLEAN : PassResume(t, ok)

SpecFresh == InitFresh /\ [][NextFresh]_vars

\* C35: syncChannel never deletes a post whose message exists upstream at the
\* time of the deletion, a post ingested while the pass was paging through
\* the upstream listing included: across every step a post whose upstream id
\* is in the channel stays stored
C35_PassKeepsPostsFoundUpstream ==
    [][\A p \in posts : p.messageId \in upstream[p.channelId] => p \in posts']_vars

-----------------------------------------------------------------------------
(* SpecLate: an album and a standalone post in c1; the delete update of a   *)
(* message arrives after its new-message update, as upstream sends them     *)

LateFlushes == 1
LateDeletes == 1

InitLate ==
    Constructed(Config(FALSE, FALSE, <<"c1">>),
                { Msg(1, "c1", "g1", <<"a">>, 11, "ok"), Msg(2, "c1", "g1", << >>, 12, "ok"),
                  Msg(3, "c1", NoGroup, <<"b">>, 13, "none") },
                Budget(1, 0, 0, 0, 0, LateFlushes, LateDeletes, 0))

NextLate ==
    \/ StartBegin
    \/ StartDone
    \/ \E m \in inbox : Deliver(m)
    \/ \E s \in DOMAIN singles, ok \in BOOLEAN : SingleResume(s, ok)
    \/ \E o \in DOMAIN groups : TimerFire(o)
    \/ \E t \in DOMAIN flushes, ok \in BOOLEAN : FlushResume(t, ok)
    \/ \E x \in {1, 3} : (\A m \in inbox : m.id # x) /\ DeleteBegin({x}, "c1", "manual")
    \/ \E d \in DOMAIN deletes, ok \in BOOLEAN : DeleteResume(d, ok)

SpecLate == InitLate /\ [][NextLate]_vars

\* C36: once handleDeletedMessages for upstream id x has returned, no post
\* with upstream id x is stored unless a new-message update for x arrives
\* afterwards; here the update of x has arrived before the call began, so
\* after the return no post with upstream id x is stored at all, also when x
\* was waiting in a group buffer or in the single-message delay
C36_DeletedIdNotStoredLater ==
    \A d \in DOMAIN deletes :
        deletes[d].pc = "done" =>
            \A p \in posts : p.messageId \notin deletes[d].messageIds

-----------------------------------------------------------------------------
(* The walk of the bot through a channel *)

\* bot-service.ts 526-549 (handleNext): the walks that start at post p and go
\* on with getNextMessage at the timestamp of the post just shown until it
\* answers null, as the sequences of posts shown
RECURSIVE WalkFrom(_, _)
WalkFrom(channelId, p) ==
    IF p = NoPost THEN { << >> }
    ELSE { <<p>> \o w : w \in UNION { WalkFrom(channelId, q) :
                                         q \in getNextMessage(channelId, p.date) } }

\* bot-service.ts 500-523 (handleChannelSelection), then handleNext repeatedly
Traversal(channelId) ==
    UNION { WalkFrom(channelId, p) : p \in getFirstMessageByChannelId(channelId) }

\* C37: a walk from getFirstMessageByChannelId along getNextMessage shows
\* every valid post of the channel exactly once before the null answer, so
\* the number of posts shown is getMessageCount, also when valid posts share
\* a timestamp
C37_TraversalVisitsEveryValidPost ==
    \A c \in Channels : \A w \in Traversal(c) :
        /\ Len(w) = getMessageCount(c)
        /\ Range(w) = { m \in posts : m.channelId = c /\ getValidMessageCondition(m) }

\* C38: when getEntity or a getMessages page of syncChannel fails, the pass
\* deletes nothing for the channel: the step leaves posts and media as they
\* are, every row the channel had when syncChannel was called is still
\* stored, one syncError event for the channel is emitted, and the error
\* reaches syncAllChannels, which counts it
C38_FetchFailureDeletesNothing ==
    [][\A t \in DOMAIN passes : PassResume(t, FALSE) =>
          LET p == passes[t]
              e == SyncEvent("syncError", p.channelId, 0)
          IN /\ posts' = posts /\ media' = media
             /\ p.before \subseteq posts'
             /\ CopiesIn(e, events') = CopiesIn(e, events) + 1
             /\ passes'[t].errorCount >= p.errorCount + 1
             /\ passes'[t].syncedCount = p.syncedCount
      ]_vars

\* a page of the listing was fetched, a later call failed, and the pass is
\* over with the channel counted as an error and its rows still stored
C38_Witness ==
    \E t \in DOMAIN passes :
        /\ passes[t].pc = "done" /\ passes[t].errorCount = 1 /\ passes[t].syncedCount = 0
        /\ passes[t].telegramMessages # {}
        /\ passes[t].before # {} /\ passes[t].before \subseteq posts
        /\ \E a \in media : \E r \in passes[t].before : a.messageId = r.id
        /\ \E e \in BagToSet(events) : e.type = "syncError" /\ e.channelId = "c1"

\* C39: each stop() of a started service emits the stopped event exactly once,
\* whether disconnect() resolves, rejects, or the 5 s timer calls forceStop:
\* the step that ends stop() adds one stopped event
C39_StopEmitsStoppedOnce ==
    [][(stopPc = "disconnect" /\ stopPc' = "idle") =>
          CopiesIn(Stopped, events') = CopiesIn(Stopped, events) + 1]_vars

=============================================================================
